---- MODULE Spec2Model ----
(***************************************************************************)
(* Model of src/monitor.py: the sliding-window threshold detectors         *)
(* (CPUResource, MemoryResource), the registration of the detectors from   *)
(* the parsed command line, and the monitor loop.                          *)
(*                                                                         *)
(* Numbers.  Samples and thresholds are whole percents.  np.average is the *)
(* exact mean sum/len, kept as a fraction <<num, den>> in lowest terms;    *)
(* for the values used here the float64 comparison `mean >= threshold`     *)
(* agrees with the exact one (two different fractions with denominators    *)
(* <= 20 differ by far more than one rounding error).                      *)
(*                                                                         *)
(* Not modelled: last_time_checked (wall-clock time, written on every call *)
(* and never read), and StorageResource (never instantiated).              *)
(*                                                                         *)
(* Spec is the program as launched: args is the namespace argparse      *)
(* builds from a command line, so every threshold is None or a string, and *)
(* the first comparison of a mean with it raises TypeError.  An exception  *)
(* that leaves the module ends the process; the state "crashed" keeps the  *)
(* objects as they were when it was raised.  FairSpec adds that the        *)
(* interpreter keeps executing the module while it can.  AppendSpec        *)
(* applies _append_fixed_length to a list of its own, push after push.     *)
(* DetectorSpec constructs the two detectors with thresholds of type       *)
(* float, the type their constructors declare, and calls                   *)
(* is_beyond_threshold on them in turn, as the for loop does, with the     *)
(* same exceptions as in the program (psutil, the prints); there the lists *)
(* live in a heap and the objects hold references to them, since the code  *)
(* changes a list in place.                                                *)
(***************************************************************************)
EXTENDS Integers, Sequences, FiniteSets, TLC

\* src/monitor.py:25-26
THRESHOLD_CHECK_INTERVAL == 1
THRESHOLD_TIME_LAPSE == 20

(***************************************************************************)
(* Bounds of the model                                                     *)
(***************************************************************************)
\* How many times a pushed value may differ from the one pushed before it.
MaxSwitches == 1
\* How many pushes beyond THRESHOLD_TIME_LAPSE are made and remembered.
HistExtra == 1

\* Readings psutil can deliver (percent).
Samples == {10, 90}
\* Thresholds of type float handed to the constructors (DetectorSpec).
Floats == {50, 80}
\* Option values as the operator may type them after --cpu / --memory.
Strings == {"50", "80", "150", "abc"}

Names == {"CPU", "Memory"}

(***************************************************************************)
(* Python values                                                           *)
(***************************************************************************)
None == [type |-> "NoneType"]
Str(s) == [type |-> "str", s |-> s]
Float(x) == [type |-> "float", v |-> x]

RECURSIVE GCD(_, _)
GCD(a, b) == IF b = 0 THEN a ELSE GCD(b, a % b)

\* The fraction num/den (den > 0, num >= 0) in lowest terms.
Frac(num, den) == LET g == GCD(num, den) IN <<num \div g, den \div g>>

\* float('nan'): what np.average returns for an empty list.
NaN == <<0, 0>>

RECURSIVE SeqSum(_)
SeqSum(s) == IF s = <<>> THEN 0 ELSE Head(s) + SeqSum(Tail(s))

\* np.average(value_list), src/monitor.py:66 and :100
np_average(value_list) ==
    IF value_list = <<>> THEN NaN
    ELSE Frac(SeqSum(value_list), Len(value_list))

\* Variant: the comparison written `>`.
Greater(mean, x) == mean[2] # 0 /\ mean[1] > x * mean[2]

\* mean >= x for a number x (False for nan)
GreaterEqual(mean, x) == mean[2] # 0 /\ mean[1] >= x * mean[2]

(***************************************************************************)
(* _append_fixed_length, src/monitor.py:29-40                              *)
(***************************************************************************)
\* Variant: value_list.pop() in place of value_list.pop(0).
append_dropping_newest(value_list, v, max_size) ==
    LET popped == IF Len(value_list) >= max_size
                  THEN SubSeq(value_list, 1, Len(value_list) - 1)
                  ELSE value_list
    IN  Append(popped, v)

_append_fixed_length(value_list, v, max_size) ==
    LET popped == IF Len(value_list) >= max_size
                  THEN Tail(value_list)      \* value_list.pop(0)
                  ELSE value_list
    IN  Append(popped, v)                    \* value_list.append(v)

(***************************************************************************)
(* The detectors, src/monitor.py:43-106                                    *)
(***************************************************************************)
\* CPUResource.__init__, src/monitor.py:44-56
CPUResource(threshold_time, threshold_average) ==
    [resource_name |-> "CPU",
     time_threshold_minutes |-> threshold_time,
     threshold |-> threshold_average,
     list_of_values |-> <<>>,
     last_value |-> Frac(0, 1)]

\* MemoryResource.__init__, src/monitor.py:76-87
MemoryResource(threshold_time, threshold_average) ==
    [resource_name |-> "Memory",
     time_threshold_minutes |-> threshold_time,
     threshold |-> threshold_average,
     list_of_values |-> <<>>,
     last_value |-> Frac(0, 1)]

\* What psutil hands back: a reading, or an exception raised in the call.
Reading(x) == [ok |-> TRUE, value |-> x]
Unavailable == [ok |-> FALSE, value |-> 0]

(* A call of is_beyond_threshold gives the object after the call and how   *)
(* the call ended: ret is "True" or "False" (the value returned),          *)
(* "SamplerError" (psutil raised; nothing was pushed) or "TypeError" (the  *)
(* comparison of the mean with a threshold that is no number raised, after *)
(* the push and the assignment of last_value).                             *)

(* Variants of CPUResource.is_beyond_threshold.                            *)
\* The list is not cleared before `return True`.
CPU_keeps_window(self, cpu_percent) ==
    IF ~cpu_percent.ok THEN [self |-> self, ret |-> "SamplerError"]
    ELSE
    LET values == _append_fixed_length(self.list_of_values, cpu_percent.value,
                                       THRESHOLD_TIME_LAPSE)
        mean == np_average(values)
        pushed == [self EXCEPT !.list_of_values = values, !.last_value = mean]
    IN  IF self.threshold.type # "float"
        THEN [self |-> pushed, ret |-> "TypeError"]
        ELSE IF GreaterEqual(mean, self.threshold.v)
                /\ Len(values) >= THRESHOLD_TIME_LAPSE
        THEN [self |-> pushed, ret |-> "True"]
        ELSE [self |-> pushed, ret |-> "False"]

\* last_value is assigned before the push instead of after it.
CPU_mean_before_push(self, cpu_percent) ==
    IF ~cpu_percent.ok THEN [self |-> self, ret |-> "SamplerError"]
    ELSE
    LET values == _append_fixed_length(self.list_of_values, cpu_percent.value,
                                       THRESHOLD_TIME_LAPSE)
        mean == np_average(self.list_of_values)
        pushed == [self EXCEPT !.list_of_values = values, !.last_value = mean]
    IN  IF self.threshold.type # "float"
        THEN [self |-> pushed, ret |-> "TypeError"]
        ELSE IF GreaterEqual(mean, self.threshold.v)
                /\ Len(values) >= THRESHOLD_TIME_LAPSE
        THEN [self |-> [pushed EXCEPT !.list_of_values = <<>>], ret |-> "True"]
        ELSE [self |-> pushed, ret |-> "False"]

\* CPUResource.is_beyond_threshold, src/monitor.py:58-72
CPU_is_beyond_threshold(self, cpu_percent) ==
    IF ~cpu_percent.ok THEN [self |-> self, ret |-> "SamplerError"]
    ELSE
    LET values == _append_fixed_length(self.list_of_values, cpu_percent.value,
                                       THRESHOLD_TIME_LAPSE)
        mean == np_average(values)
        pushed == [self EXCEPT !.list_of_values = values, !.last_value = mean]
    IN  IF self.threshold.type # "float"
        THEN [self |-> pushed, ret |-> "TypeError"]
        ELSE IF GreaterEqual(mean, self.threshold.v)
                /\ Len(values) >= THRESHOLD_TIME_LAPSE
        THEN [self |-> [pushed EXCEPT !.list_of_values = <<>>], ret |-> "True"]
        ELSE [self |-> pushed, ret |-> "False"]

\* Variant: the list is not cleared before `return True`.
Memory_keeps_window(self, virtual_memory_percent) ==
    IF ~virtual_memory_percent.ok THEN [self |-> self, ret |-> "SamplerError"]
    ELSE
    LET values == _append_fixed_length(self.list_of_values,
                                       virtual_memory_percent.value,
                                       THRESHOLD_TIME_LAPSE)
        mean == np_average(values)
        pushed == [self EXCEPT !.list_of_values = values, !.last_value = mean]
    IN  IF self.threshold.type # "float"
        THEN [self |-> pushed, ret |-> "TypeError"]
        ELSE IF GreaterEqual(mean, self.threshold.v)
                /\ Len(values) >= THRESHOLD_TIME_LAPSE
        THEN [self |-> pushed, ret |-> "True"]
        ELSE [self |-> pushed, ret |-> "False"]

\* MemoryResource.is_beyond_threshold, src/monitor.py:89-106
Memory_is_beyond_threshold(self, virtual_memory_percent) ==
    IF ~virtual_memory_percent.ok THEN [self |-> self, ret |-> "SamplerError"]
    ELSE
    LET values == _append_fixed_length(self.list_of_values,
                                       virtual_memory_percent.value,
                                       THRESHOLD_TIME_LAPSE)
        mean == np_average(values)
        pushed == [self EXCEPT !.list_of_values = values, !.last_value = mean]
    IN  IF self.threshold.type # "float"
        THEN [self |-> pushed, ret |-> "TypeError"]
        ELSE IF GreaterEqual(mean, self.threshold.v)
                /\ Len(values) >= THRESHOLD_TIME_LAPSE
        THEN [self |-> [pushed EXCEPT !.list_of_values = <<>>], ret |-> "True"]
        ELSE [self |-> pushed, ret |-> "False"]

\* r.is_beyond_threshold(), dispatched on the object's class
is_beyond_threshold(r, sampled) ==
    IF r.resource_name = "CPU"
    THEN CPU_is_beyond_threshold(r, sampled)
    ELSE Memory_is_beyond_threshold(r, sampled)

(***************************************************************************)
(* Command line, src/monitor.py:11-22                                      *)
(***************************************************************************)
\* parser.parse_args(): every dest is an attribute of the namespace; an
\* option that was not given has the default None, an option that was given
\* has the string typed (no type= conversion is declared).
parse_args(cpu, memory) ==
    [cpu_threshold_percent |-> cpu, memory_threshold_percent |-> memory]

OptionValues == {None} \cup {Str(s) : s \in Strings}
CommandLines == {parse_args(c, m) : c \in OptionValues, m \in OptionValues}
\* `name in args` (argparse.Namespace.__contains__)
Contains(namespace, name) == name \in DOMAIN namespace

\* src/monitor.py:132-140
Register(namespace) ==
    LET r1 == IF Contains(namespace, "cpu_threshold_percent")
              THEN <<CPUResource(THRESHOLD_TIME_LAPSE,
                                 namespace.cpu_threshold_percent)>>
              ELSE <<>>
        r2 == IF Contains(namespace, "memory_threshold_percent")
              THEN <<MemoryResource(THRESHOLD_TIME_LAPSE,
                                    namespace.memory_threshold_percent)>>
              ELSE <<>>
    IN  r1 \o r2

(***************************************************************************)
(* State                                                                   *)
(***************************************************************************)
VARIABLES
    pc,                  \* "start", "sleep", "check", "crashed" (an
                         \* exception left the module: the process is
                         \* over), "append" (AppendSpec only) or
                         \* "detectors" (DetectorSpec only)
    args,                \* the namespace parse_args returned
    resources_to_check,  \* the list of detector objects
    i,                   \* position of the for loop in resources_to_check
    warned,              \* the warnings printed since the last
                         \* "Checking...": <<name, breach>>, in order
    raised,              \* the exception that ended the process: "none",
                         \* "SamplerError" (psutil), "TypeError" (the
                         \* comparison), "PrintError" (a print)
    \* Observers: written by the actions, read by no guard.
    result,              \* per resource: how its most recent call ended
                         \* ("NotifierError": it returned True and the
                         \* print of the warning raised)
    checked,             \* the resources whose is_beyond_threshold was
                         \* called since the last "Checking...", in order
    pushed,              \* per resource: the readings pushed since its
                         \* window was last empty, oldest first (the
                         \* newest THRESHOLD_TIME_LAPSE + HistExtra of them)
    \* AppendSpec
    value_list,          \* the list handed to _append_fixed_length
    history,             \* every value pushed to it, oldest first
    \* DetectorSpec
    heap,                \* the list objects the constructors created, by
                         \* reference (there list_of_values is a reference)
    switches             \* readings that differed from the reading of the
                         \* same resource before (see MaxSwitches)

vars == <<pc, args, resources_to_check, i, warned, raised,
          result, checked, pushed, value_list, history, heap, switches>>

\* The program as launched: args is what argparse makes of a command line.
Init ==
    /\ args \in CommandLines
    /\ pc = "start"
    /\ resources_to_check = <<>>
    /\ i = 1
    /\ warned = <<>>
    /\ raised = "none"
    /\ result = [n \in Names |-> "none"]
    /\ checked = <<>>
    /\ pushed = [n \in Names |-> <<>>]
    /\ value_list = <<>>
    /\ history = <<>>
    /\ heap = <<>>
    /\ switches = 0

(***************************************************************************)
(* Actions                                                                 *)
(***************************************************************************)
\* src/monitor.py:132-142: fill resources_to_check, enter the loop
Configure ==
    /\ pc = "start"
    /\ resources_to_check' = Register(args)
    /\ pc' = "sleep"
    /\ UNCHANGED <<args, i, warned, raised, result, checked, pushed,
                   value_list, history, heap, switches>>

\* src/monitor.py:144-147: time.sleep, print("Checking..."), start the for
\* loop (over an empty list the body is skipped and the loop sleeps again).
\* The print succeeds, or raises (standard output closed): nothing catches
\* it and the process ends before the for loop.
Tick ==
    /\ pc = "sleep"
    /\ \E printed \in BOOLEAN :
          IF printed
          THEN /\ pc' = IF resources_to_check = <<>> THEN "sleep" ELSE "check"
               /\ i' = 1
               /\ warned' = <<>>
               /\ checked' = <<>>
               /\ UNCHANGED raised
          ELSE /\ pc' = "crashed"
               /\ raised' = "PrintError"
               /\ UNCHANGED <<i, warned, checked>>
    /\ UNCHANGED <<args, resources_to_check, result, pushed,
                   value_list, history, heap, switches>>

\* What psutil may hand to the call of resource n: any reading, or an
\* exception.
Readings(n) == {Unavailable} \cup {Reading(x) : x \in Samples}

\* The observer of pushes: restarted by the first call after a True.
Observe(h0, restart, x) ==
    LET h == IF restart THEN <<>> ELSE h0
        k == IF Len(h) >= THRESHOLD_TIME_LAPSE + HistExtra THEN Tail(h) ELSE h
    IN  Append(k, x)

\* Variant: the new line is put before the lines already printed.
warn_before_earlier(out, name, breach) == <<<<name, breach>>>> \o out

\* warn_threshold_breach(name, breach), src/monitor.py:118-125: one more
\* line on standard output
warn_threshold_breach(out, name, breach) == Append(out, <<name, breach>>)

\* Standard output when a warning is printed: the print succeeds, or raises
\* (a closed pipe, a full disk).
Outcomes(ret) == IF ret = "True" THEN {TRUE, FALSE} ELSE {TRUE}

\* The list after the call on its k-th object: r is a reference to that
\* object, and the call assigns to attributes of self only.
after_call(registry, k, self) == [registry EXCEPT ![k] = self]

\* src/monitor.py:147-150: one iteration of the for loop.  No statement of
\* the module catches an exception: one raised in the call or in the print
\* ends the process with a traceback; the object keeps what the call had
\* assigned before it raised.
Check ==
    /\ pc = "check"
    /\ LET r == resources_to_check[i]
           n == r.resource_name
       IN  \E sampled \in Readings(n) :
           LET call == is_beyond_threshold(r, sampled) IN
           \E printed \in Outcomes(call.ret) :
           LET returned == call.ret \in {"True", "False"} /\ printed IN
           /\ resources_to_check' =
                  after_call(resources_to_check, i, call.self)
           /\ checked' = Append(checked, n)
           /\ result' = [result EXCEPT
                           ![n] = IF call.ret = "True" /\ ~printed
                                  THEN "NotifierError" ELSE call.ret]
           /\ pushed' = IF sampled.ok
                        THEN [pushed EXCEPT
                                ![n] = Observe(@, result[n] = "True",
                                               sampled.value)]
                        ELSE pushed
           /\ warned' = IF call.ret = "True" /\ printed
                        THEN warn_threshold_breach(warned,
                                 call.self.resource_name,
                                 call.self.last_value)
                        ELSE warned
           /\ IF returned
              THEN /\ pc' = IF i = Len(resources_to_check)
                            THEN "sleep" ELSE "check"
                   /\ i' = IF i = Len(resources_to_check) THEN i ELSE i + 1
                   /\ UNCHANGED raised
              ELSE /\ pc' = "crashed"
                   /\ raised' = IF call.ret = "True"
                                THEN "PrintError" ELSE call.ret
                   /\ UNCHANGED i
    /\ UNCHANGED <<args, value_list, history, heap, switches>>

Next == Configure \/ Tick \/ Check

Spec == Init /\ [][Next]_vars

\* The interpreter executes the next statement of the module while there
\* is one.
FairSpec == Spec /\ WF_vars(Next)

(***************************************************************************)
(* _append_fixed_length on a list of its own                               *)
(***************************************************************************)
\* An empty list, as both constructors create it.
AppendInit ==
    /\ pc = "append"
    /\ value_list = <<>>
    /\ history = <<>>
    /\ args = parse_args(None, None)
    /\ resources_to_check = <<>>
    /\ i = 1
    /\ warned = <<>>
    /\ raised = "none"
    /\ result = [n \in Names |-> "none"]
    /\ checked = <<>>
    /\ pushed = [n \in Names |-> <<>>]
    /\ heap = <<>>
    /\ switches = 0

\* How many pushed values differ from the value pushed before them.
Changes(h) == Cardinality({k \in 1..(Len(h) - 1) : h[k] # h[k + 1]})

\* _append_fixed_length(value_list, v, THRESHOLD_TIME_LAPSE), the call of
\* src/monitor.py:65 and :99
Push ==
    /\ pc = "append"
    /\ Len(history) < THRESHOLD_TIME_LAPSE + HistExtra
    /\ \E v \in Samples :
          /\ Changes(Append(history, v)) <= MaxSwitches
          /\ value_list' = _append_fixed_length(value_list, v,
                                                THRESHOLD_TIME_LAPSE)
          /\ history' = Append(history, v)
    /\ UNCHANGED <<pc, args, resources_to_check, i, warned, raised,
                   result, checked, pushed, heap, switches>>

AppendSpec == AppendInit /\ [][Push]_vars

(***************************************************************************)
(* The two detectors on thresholds of type float                           *)
(***************************************************************************)
\* Variant: one list for both objects (list_of_values a class attribute or
\* a mutable default argument instead of a list created in __init__).
Construct_shared_list(cpu_threshold, memory_threshold) ==
    [heap |-> << <<>> >>,
     objects |->
        <<[CPUResource(THRESHOLD_TIME_LAPSE, cpu_threshold)
              EXCEPT !.list_of_values = 1],
          [MemoryResource(THRESHOLD_TIME_LAPSE, memory_threshold)
              EXCEPT !.list_of_values = 1]>>]

\* CPUResource(...) and MemoryResource(...), src/monitor.py:43-56 and
\* 75-87: each __init__ evaluates `[]`, a new list object, and binds it to
\* self.list_of_values.
Construct(cpu_threshold, memory_threshold) ==
    [heap |-> << <<>>, <<>> >>,
     objects |->
        <<[CPUResource(THRESHOLD_TIME_LAPSE, cpu_threshold)
              EXCEPT !.list_of_values = 1],
          [MemoryResource(THRESHOLD_TIME_LAPSE, memory_threshold)
              EXCEPT !.list_of_values = 2]>>]

DetectorInit ==
    /\ pc = "detectors"
    /\ \E c \in Floats, m \in Floats :
          LET made == Construct(Float(c), Float(m)) IN
          /\ heap = made.heap
          /\ resources_to_check = made.objects
    /\ i = 1
    /\ switches = 0
    /\ warned = <<>>
    /\ raised = "none"
    /\ result = [n \in Names |-> "none"]
    /\ checked = <<>>
    /\ pushed = [n \in Names |-> <<>>]
    /\ args = parse_args(None, None)
    /\ value_list = <<>>
    /\ history = <<>>

\* src/monitor.py:145-149 on the objects constructed: one iteration of the
\* for loop, the next object in turn, preceded by print("Checking...") when
\* the object is the first of the list.  _append_fixed_length and clear()
\* change the list object in place, so the call writes to the heap at the
\* reference self.list_of_values; last_value is an attribute of self.
\* Nothing catches an exception: psutil raising (the object is as it was),
\* the print of the warning raising (after the call cleared the list and
\* returned True) and print("Checking...") raising each end the process.
\* A reading other than the one before for this resource uses up a switch.
Call ==
    /\ pc = "detectors"
    /\ \E checking \in (IF i = 1 THEN BOOLEAN ELSE {TRUE}) :
       IF ~checking
       THEN /\ pc' = "crashed"
            /\ raised' = "PrintError"
            /\ UNCHANGED <<resources_to_check, i, warned, result, checked,
                           pushed, heap, switches>>
       ELSE
       LET r == resources_to_check[i]
           n == r.resource_name
           ref == r.list_of_values
           self == [r EXCEPT !.list_of_values = heap[ref]]
           out == IF i = 1 THEN <<>> ELSE warned
           called == IF i = 1 THEN <<>> ELSE checked
       IN  \E sampled \in Readings(n) :
           LET call == is_beyond_threshold(self, sampled)
               changed == /\ sampled.ok
                          /\ pushed[n] # <<>>
                          /\ sampled.value # pushed[n][Len(pushed[n])]
           IN
           \E printed \in Outcomes(call.ret) :
           LET returned == call.ret \in {"True", "False"} /\ printed IN
           /\ changed => switches < MaxSwitches
           /\ switches' = IF changed THEN switches + 1 ELSE switches
           /\ heap' = [heap EXCEPT ![ref] = call.self.list_of_values]
           /\ resources_to_check' =
                  [resources_to_check EXCEPT
                     ![i] = [call.self EXCEPT !.list_of_values = ref]]
           /\ checked' = Append(called, n)
           /\ result' = [result EXCEPT
                           ![n] = IF call.ret = "True" /\ ~printed
                                  THEN "NotifierError" ELSE call.ret]
           /\ pushed' = IF sampled.ok
                        THEN [pushed EXCEPT
                                ![n] = Observe(@, result[n] = "True",
                                               sampled.value)]
                        ELSE pushed
           /\ warned' = IF call.ret = "True" /\ printed
                        THEN warn_threshold_breach(out,
                                 call.self.resource_name,
                                 call.self.last_value)
                        ELSE out
           /\ IF returned
              THEN /\ i' = IF i = Len(resources_to_check) THEN 1 ELSE i + 1
                   /\ UNCHANGED <<pc, raised>>
              ELSE /\ pc' = "crashed"
                   /\ raised' = IF call.ret = "True"
                                THEN "PrintError" ELSE call.ret
                   /\ UNCHANGED i
    /\ UNCHANGED <<args, value_list, history>>

DetectorSpec == DetectorInit /\ [][Call]_vars

(***************************************************************************)
(* Reading the state                                                       *)
(***************************************************************************)
Registered(n) ==
    \E k \in DOMAIN resources_to_check : resources_to_check[k].resource_name = n

Position(n) ==
    CHOOSE k \in DOMAIN resources_to_check : resources_to_check[k].resource_name = n

Detector(n) == resources_to_check[Position(n)]

\* The newest k elements of s (all of s when it has fewer).
LastN(s, k) == IF Len(s) <= k THEN s ELSE SubSeq(s, Len(s) - k + 1, Len(s))

\* The readings the window of n held when its most recent call computed
\* the mean, from the readings alone.
WindowAtCheck(n) == LastN(pushed[n], THRESHOLD_TIME_LAPSE)

Range(s) == {s[k] : k \in DOMAIN s}

\* DetectorSpec: the list object of n, and whether n was called since the
\* last "Checking...".
Window(n) == heap[Detector(n).list_of_values]

CalledThisPass(n) == n \in Range(checked)

\* The most recent call of n returned True (its warning printed, or the
\* print of its warning raised).
Fired(n) == result[n] \in {"True", "NotifierError"}

\* The most recent call of n got a reading from psutil.
Sampled(n) == result[n] \notin {"none", "SamplerError"}

\* What the operator typed for resource n, and the number it denotes.
Option(n) == IF n = "CPU" THEN args.cpu_threshold_percent
                          ELSE args.memory_threshold_percent

Numeral == ("50" :> 50) @@ ("80" :> 80) @@ ("150" :> 150)

HasThreshold(n) == Option(n).type = "str" /\ Option(n).s \in DOMAIN Numeral

Threshold(n) == Numeral[Option(n).s]

\* Every reading of n so far is at or above the threshold typed for n.
AllAtLeastThreshold(n) ==
    \A k \in DOMAIN pushed[n] : pushed[n][k] >= Threshold(n)

\* psutil or standard output failed (the subjects of C8 and C12).
EnvironmentFailed == raised \in {"SamplerError", "PrintError"}

(***************************************************************************)
(* Properties of the detectors                                             *)
(***************************************************************************)

\* C1  No-fire-before-full: each of the first THRESHOLD_TIME_LAPSE - 1
\* calls from an empty window, whatever the readings, returns False.
NoFireBeforeFull ==
    \A n \in Names :
        (Sampled(n) /\ Len(pushed[n]) < THRESHOLD_TIME_LAPSE)
        => result[n] = "False"

\* C2  Fire-on-full-and-exceed: a resource that reads the same value V, at
\* or above the threshold typed for it, on 20 consecutive checks from an
\* empty window gets True from the 20th call, with the window then empty
\* (unless psutil or standard output fails before).
FireOnFullAndExceed ==
    \A n \in Names :
        <>(\/ ~HasThreshold(n)
           \/ EnvironmentFailed
           \/ ~AllAtLeastThreshold(n)
           \/ \E k \in DOMAIN pushed[n] : pushed[n][k] # pushed[n][1]
           \/ /\ Len(pushed[n]) = THRESHOLD_TIME_LAPSE
              /\ result[n] = "True"
              /\ Detector(n).list_of_values = <<>>)

\* C4  Window capacity of _append_fixed_length with max_size
\* THRESHOLD_TIME_LAPSE: after any sequence of pushes the list holds no
\* more than THRESHOLD_TIME_LAPSE values, and they are the newest
\* THRESHOLD_TIME_LAPSE values pushed (all of them when there are fewer),
\* oldest first.
WindowCapacity ==
    /\ Len(value_list) <= THRESHOLD_TIME_LAPSE
    /\ value_list = LastN(history, THRESHOLD_TIME_LAPSE)

\* More than THRESHOLD_TIME_LAPSE pushes: the oldest value was evicted, and
\* the list holds two different values in push order.
WindowCapacityWitness ==
    /\ Len(history) > THRESHOLD_TIME_LAPSE
    /\ Len(value_list) = THRESHOLD_TIME_LAPSE
    /\ value_list[1] # value_list[THRESHOLD_TIME_LAPSE]
    /\ value_list[1] = history[Len(history) - THRESHOLD_TIME_LAPSE + 1]
    /\ value_list[THRESHOLD_TIME_LAPSE] = history[Len(history)]

\* C7  A resource whose every reading since start-up is at or above the
\* threshold typed for it gets a warning, and its calls return True only as
\* the THRESHOLD_TIME_LAPSE-th call since the window was empty (unless
\* psutil or standard output fails).
PinnedFiresEveryCapacity ==
    \A n \in Names :
        /\ [](result[n] = "True" => Len(pushed[n]) = THRESHOLD_TIME_LAPSE)
        /\ <>(\/ ~HasThreshold(n)
              \/ EnvironmentFailed
              \/ ~AllAtLeastThreshold(n)
              \/ \E k \in DOMAIN warned : warned[k][1] = n)

\* C8  SampleUnavailable is recoverable: when psutil fails in a detector's
\* call, the loop goes on (with that detector's state as it was).
SampleUnavailableIsRecoverable ==
    \A n \in Names : result[n] = "SamplerError" => pc # "crashed"

(***************************************************************************)
(* Properties of the start-up and of the loop                              *)
(***************************************************************************)

\* The option of resource n was given on the command line.
Requested(n) == Option(n).type # "NoneType"

\* C9  The registry holds a detector for a resource only when its option
\* was given.
RegistryHoldsOnlyRequested ==
    \A n \in Names : Registered(n) => Requested(n)

ValidThreshold(t) == t.type = "float" /\ t.v >= 0 /\ t.v <= 100

\* C10  InvalidThreshold is surfaced at start-up: in the running loop every
\* registered detector has a numeric threshold in 0..100.
ThresholdsValidInLoop ==
    pc = "check" =>
        \A k \in DOMAIN resources_to_check :
            ValidThreshold(resources_to_check[k].threshold)

\* At the end of a tick every registered detector was checked exactly once,
\* in list order, and inside a tick the detectors before position i were.
EachDetectorCheckedOncePerTick ==
    /\ (pc = "sleep" /\ checked # <<>>) =>
          /\ Len(checked) = Len(resources_to_check)
          /\ \A k \in DOMAIN checked :
                checked[k] = resources_to_check[k].resource_name
    /\ pc = "check" =>
          /\ Len(checked) = i - 1
          /\ \A k \in DOMAIN checked :
                checked[k] = resources_to_check[k].resource_name

\* C13  The loop runs indefinitely and strictly sequentially: no state is
\* terminal (the process is never over), and every tick checks each
\* registered detector exactly once before the next sleep.
LoopRunsIndefinitely ==
    /\ pc # "crashed"
    /\ EachDetectorCheckedOncePerTick

(***************************************************************************)
(* Properties of the detectors on float thresholds, under DetectorSpec     *)
(***************************************************************************)

\* C3  Hysteresis reset: a call that returns right after one that returned
\* True returns False whatever the reading, and a call returns True only as
\* the THRESHOLD_TIME_LAPSE-th call or later since the window was last
\* empty, so that two True results have at least THRESHOLD_TIME_LAPSE - 1
\* False results between them.  (A call in which psutil raises returns
\* nothing, and ends the process.)
HysteresisReset ==
    [][pc = "detectors" =>
          LET n == resources_to_check[i].resource_name
              returned == pc' = "detectors" \/ result'[n] = "NotifierError"
              fired == result'[n] \in {"True", "NotifierError"}
          IN  returned =>
                 /\ result[n] = "True" => result'[n] = "False"
                 /\ fired => /\ Len(pushed'[n]) >= THRESHOLD_TIME_LAPSE
                            /\ result[n] = "False"]_vars

\* The call after a fire read a value at or above the threshold and
\* returned False: n has one reading since its fire, while m, called as
\* often and never cleared, has a full window.
HysteresisResetWitness ==
    \E n \in Names, m \in Names :
        /\ result[n] = "False"
        /\ Len(pushed[n]) = 1
        /\ Window(n) = pushed[n]
        /\ pushed[n][1] >= Detector(n).threshold.v
        /\ Len(Window(m)) = THRESHOLD_TIME_LAPSE

\* C5  The breach value is captured before the clear: when the last call
\* returned True, last_value is the mean of the THRESHOLD_TIME_LAPSE
\* readings the window held at the comparison, it is at least the
\* threshold, the window is already empty, and the warning printed for this
\* resource in this pass of the loop carries it.
BreachValueCapturedBeforeClear ==
    \A n \in Names :
        Fired(n) =>
            LET d == Detector(n) IN
            /\ Len(WindowAtCheck(n)) = THRESHOLD_TIME_LAPSE
            /\ d.last_value[2] > 0
            /\ d.last_value[1] * THRESHOLD_TIME_LAPSE
                 = SeqSum(WindowAtCheck(n)) * d.last_value[2]
            /\ d.last_value[1] >= d.threshold.v * d.last_value[2]
            /\ Window(n) = <<>>
            /\ (result[n] = "True" /\ CalledThisPass(n)) =>
                  \E k \in DOMAIN warned : warned[k] = <<n, d.last_value>>

\* A fire on a window of two different readings: the warning carries their
\* mean, and the window is empty.
BreachValueWitness ==
    \E n \in Names :
        /\ result[n] = "True"
        /\ CalledThisPass(n)
        /\ Cardinality(Range(WindowAtCheck(n))) = 2
        /\ Window(n) = <<>>
        /\ <<n, Frac(SeqSum(WindowAtCheck(n)), THRESHOLD_TIME_LAPSE)>>
              \in Range(warned)

\* C6  A call that got a reading returns True exactly when the window
\* after the push holds THRESHOLD_TIME_LAPSE readings whose mean is at
\* least the threshold (sum >= THRESHOLD_TIME_LAPSE * threshold), and
\* returns False otherwise: the mean decides, not the single readings.
FiresExactlyOnFullWindowMean ==
    \A n \in Names :
        Sampled(n) =>
            /\ Fired(n) \/ result[n] = "False"
            /\ Fired(n)
               <=> /\ Len(WindowAtCheck(n)) = THRESHOLD_TIME_LAPSE
                   /\ SeqSum(WindowAtCheck(n))
                        >= THRESHOLD_TIME_LAPSE * Detector(n).threshold.v

\* A fire on a mean equal to the threshold, with readings below it in the
\* window.
FiresOnMeanEqualWitness ==
    \E n \in Names :
        /\ result[n] = "True"
        /\ SeqSum(WindowAtCheck(n)) = THRESHOLD_TIME_LAPSE * Detector(n).threshold.v
        /\ \E k \in DOMAIN WindowAtCheck(n) :
              WindowAtCheck(n)[k] < Detector(n).threshold.v

\* The other case of the same property, also reachable: a full window with
\* readings above the threshold and the mean below it did not fire.
FullWindowBelowMeanNoFire ==
    \E n \in Names :
        /\ result[n] = "False"
        /\ Len(WindowAtCheck(n)) = THRESHOLD_TIME_LAPSE
        /\ \E k \in DOMAIN WindowAtCheck(n) :
              WindowAtCheck(n)[k] > Detector(n).threshold.v

\* C14  Detector isolation: a call of one detector's is_beyond_threshold,
\* a fire that clears its window included, leaves the other detector's
\* window, last_value and threshold as they were: a window changes only in
\* its own detector's call.
DetectorIsolation ==
    [][pc = "detectors" =>
          \A k \in DOMAIN resources_to_check :
              k # i =>
                 /\ heap'[resources_to_check'[k].list_of_values]
                      = heap[resources_to_check[k].list_of_values]
                 /\ resources_to_check'[k] = resources_to_check[k]]_vars

\* CPU has just fired and its window is empty; Memory, called 19 times so
\* far, still holds its 19 readings and the mean of them.
DetectorIsolationWitness ==
    /\ pc = "detectors"
    /\ i = 2
    /\ result["CPU"] = "True"
    /\ Window("CPU") = <<>>
    /\ Len(Window("Memory")) = THRESHOLD_TIME_LAPSE - 1
    /\ Window("Memory") = pushed["Memory"]
    /\ Detector("Memory").last_value = np_average(pushed["Memory"])

\* The converse case, also reachable: Memory has just fired, and CPU, whose
\* readings were below its threshold, keeps its full window.
MemoryFireLeavesCPUWindow ==
    /\ pc = "detectors"
    /\ i = 1
    /\ result["Memory"] = "True"
    /\ Window("Memory") = <<>>
    /\ result["CPU"] = "False"
    /\ Window("CPU") = WindowAtCheck("CPU")
    /\ Len(Window("CPU")) = THRESHOLD_TIME_LAPSE

\* C16  After a call that returned, and before the first call, a
\* detector's window is empty exactly when the detector was never called or
\* its last call returned True; and in every state a full window has a mean
\* strictly below the threshold: no window is left both full and at or
\* above the threshold.
WindowStateBetweenChecks ==
    \A n \in Names :
        /\ result[n] # "SamplerError" =>
              (Window(n) = <<>> <=> (result[n] = "none" \/ Fired(n)))
        /\ Len(Window(n)) >= THRESHOLD_TIME_LAPSE
           => SeqSum(Window(n)) < Detector(n).threshold.v * Len(Window(n))

\* At the end of a pass one detector is empty after its fire and the other
\* is full with readings whose mean is below its threshold.
WindowStateWitness ==
    \E n \in Names, m \in Names :
        /\ i = 1
        /\ result[n] = "True"
        /\ Window(n) = <<>>
        /\ result[m] = "False"
        /\ Len(Window(m)) = THRESHOLD_TIME_LAPSE

\* C11  Notification ordering: since the last "Checking..." the detectors
\* were called in the order of resources_to_check (CPU before Memory), the
\* warnings printed are in that same order, and a call that returned True
\* has its warning printed before any later call or "Checking...".
NotificationOrdering ==
    /\ Len(checked) <= Len(resources_to_check)
    /\ \A k \in DOMAIN checked :
          checked[k] = resources_to_check[k].resource_name
    /\ \A a \in DOMAIN warned, b \in DOMAIN warned :
          a < b => Position(warned[a][1]) < Position(warned[b][1])
    /\ \A n \in Names :
          (n \in Range(checked) /\ result[n] = "True")
          <=> (\E k \in DOMAIN warned : warned[k][1] = n)

\* Both detectors fired in one pass: CPU's warning, then Memory's.
NotificationOrderingWitness ==
    /\ Len(warned) = 2
    /\ warned[1][1] = "CPU"
    /\ warned[2][1] = "Memory"
    /\ checked = <<"CPU", "Memory">>

\* The pass after it: CPU was called again, nothing is printed yet, and
\* Memory's True of the pass before is still its most recent result.
NextPassAfterWarnings ==
    /\ checked = <<"CPU">>
    /\ warned = <<>>
    /\ result["CPU"] = "False"
    /\ result["Memory"] = "True"

MeanNeverOnEmptyWindow ==
    \A n \in Names :
        Registered(n) =>
            /\ Detector(n).last_value # NaN
            /\ Sampled(n) =>
                  /\ Len(WindowAtCheck(n)) >= 1
                  /\ Detector(n).last_value[2] > 0
                  /\ Detector(n).last_value[1] * Len(WindowAtCheck(n))
                       = SeqSum(WindowAtCheck(n)) * Detector(n).last_value[2]

\* The first call after start-up: the mean is the one reading pushed.
MeanOnFirstCallWitness ==
    \E n \in Names :
        /\ Registered(n)
        /\ Sampled(n)
        /\ Len(Detector(n).list_of_values) = 1
        /\ Detector(n).last_value = <<Detector(n).list_of_values[1], 1>>

\* C17  The window grows by one per call that does not return True until
\* it holds THRESHOLD_TIME_LAPSE values and then stays at that size, it is
\* emptied only by a call that returns True, and a resource that keeps
\* being read reaches the full window (unless psutil or standard output
\* fails).
FullWindowLeavesOnlyByFiring ==
    /\ [][(pc = "check" /\ raised' # "SamplerError") =>
             LET n == resources_to_check[i].resource_name
                 before == Len(resources_to_check[i].list_of_values)
                 after == Len(resources_to_check'[i].list_of_values)
             IN  IF result'[n] \in {"True", "NotifierError"}
                 THEN after = 0
                 ELSE after = IF before < THRESHOLD_TIME_LAPSE
                              THEN before + 1 ELSE THRESHOLD_TIME_LAPSE]_vars
    /\ \A n \in Names :
          <>(\/ EnvironmentFailed
             \/ /\ Registered(n)
                /\ \/ Len(Detector(n).list_of_values) = THRESHOLD_TIME_LAPSE
                   \/ result[n] = "True")

====
